---- MODULE Spec2Model ----
(***************************************************************************)
(* A model of net.py: the Netflix data-cleaning script.  main() checks the *)
(* input path, loads the CSV into a DataFrame and passes it through seven  *)
(* cleaning functions, collecting their notes, then writes the cleaned CSV *)
(* and the summary.                                                        *)
(*                                                                         *)
(* Strings are sequences of one-character strings, so that strip, lower,   *)
(* replace, split and the numeric and date parsers are computed and not    *)
(* assumed.  A DataFrame is [cols, rows]: the column labels in order and   *)
(* the rows, each a sequence of cells aligned with cols.                   *)
(***************************************************************************)
EXTENDS Integers, Sequences, FiniteSets, TLC

VARIABLES
    fs_input,        \* the file at INPUT_FILENAME: Absent, or the CSV's header and fields
    pc,              \* main()'s position
    df,              \* main()'s local df
    df_in,           \* the argument of the cleaning function called last
    notes,           \* main()'s local notes
    calls,           \* the cleaning functions main() has called, in call order
    original_shape,  \* main()'s local original_shape
    final_shape,     \* main()'s local final_shape
    fs_output,       \* the file at OUTPUT_FILENAME: Absent or the table written
    fs_summary,      \* the file at SUMMARY_FILENAME: Absent or the summary written
    console,         \* the diagnostics main() itself printed
    raised           \* the exception that ended main(), or "none"

vars == <<fs_input, pc, df, df_in, notes, calls, original_shape, final_shape,
          fs_output, fs_summary, console, raised>>

(***************************************************************************)
(* Bounds of the model.                                                    *)
(***************************************************************************)
MaxRows == 3         \* rows of the input file
MaxCols == 2         \* columns of the input file
MaxCells == 4        \* rows * columns of the input file

(***************************************************************************)
(* Column labels and string literals of net.py.                            *)
(***************************************************************************)
UNNAMED_0 == <<"U", "n", "n", "a", "m", "e", "d", ":", " ", "0">>
INDEX == <<"i", "n", "d", "e", "x">>
TITLE == <<"t", "i", "t", "l", "e">>
DIRECTOR == <<"d", "i", "r", "e", "c", "t", "o", "r">>
CAST == <<"c", "a", "s", "t">>
COUNTRY == <<"c", "o", "u", "n", "t", "r", "y">>
RATING == <<"r", "a", "t", "i", "n", "g">>
TYPE == <<"t", "y", "p", "e">>
LISTED_IN == <<"l", "i", "s", "t", "e", "d", "_", "i", "n">>
DESCRIPTION == <<"d", "e", "s", "c", "r", "i", "p", "t", "i", "o", "n">>
RELEASE_YEAR == <<"r", "e", "l", "e", "a", "s", "e", "_", "y", "e", "a", "r">>
DURATION == <<"d", "u", "r", "a", "t", "i", "o", "n">>
DATE_ADDED == <<"d", "a", "t", "e", "_", "a", "d", "d", "e", "d">>
DURATION_VALUE == <<"d", "u", "r", "a", "t", "i", "o", "n", "_", "v", "a", "l", "u", "e">>
DURATION_UNIT == <<"d", "u", "r", "a", "t", "i", "o", "n", "_", "u", "n", "i", "t">>
DATE_ADDED_PARSED == <<"d", "a", "t", "e", "_", "a", "d", "d", "e", "d", "_",
                       "p", "a", "r", "s", "e", "d">>
DATE_ADDED_DDMMYYYY == <<"d", "a", "t", "e", "_", "a", "d", "d", "e", "d", "_",
                         "d", "d", "m", "m", "y", "y", "y", "y">>
NOT_AVAILABLE == <<"N", "o", "t", " ", "A", "v", "a", "i", "l", "a", "b", "l", "e">>
NOT_RATED == <<"N", "o", "t", " ", "R", "a", "t", "e", "d">>
ZERO_MIN == <<"0", " ", "m", "i", "n">>
S_nan == <<"n", "a", "n">>
S_none == <<"n", "o", "n", "e">>
S_empty == <<>>

\* Labels of input columns that net.py does not name.
A_DOT_B == <<"A", ".", "B">>
A_HYPHEN_B == <<"A", "-", "B">>
SHOW_ID == <<" ", "S", "h", "o", "w", " ", "I", "d">>

(***************************************************************************)
(* Cells.  NaN is the missing marker of numpy, NoneCell the None that      *)
(* str.split pads short rows with, NaT the null date.                      *)
(***************************************************************************)
NaN == [k |-> "nan", s |-> <<>>, n |-> 0]
NoneCell == [k |-> "none", s |-> <<>>, n |-> 0]
NaT == [k |-> "nat", s |-> <<>>, n |-> 0]
StrCell(s) == [k |-> "str", s |-> s, n |-> 0]
IntCell(n) == [k |-> "int", s |-> <<>>, n |-> n]
Timestamp(d, m, y) == [k |-> "date", s |-> <<>>, n |-> y * 10000 + m * 100 + d]

IsNull(c) == c.k \in {"nan", "none", "nat"}     \* Series.isnull
IsStr(c) == c.k = "str"

(***************************************************************************)
(* Python's str methods.                                                   *)
(***************************************************************************)
UpperCase == <<"A", "B", "C", "D", "E", "F", "G", "H", "I", "J", "K", "L", "M",
               "N", "O", "P", "Q", "R", "S", "T", "U", "V", "W", "X", "Y", "Z">>
LowerCase == <<"a", "b", "c", "d", "e", "f", "g", "h", "i", "j", "k", "l", "m",
               "n", "o", "p", "q", "r", "s", "t", "u", "v", "w", "x", "y", "z">>
Digits == <<"0", "1", "2", "3", "4", "5", "6", "7", "8", "9">>

IsSpace(c) == c = " "

RECURSIVE LStrip(_)
LStrip(s) == IF s # <<>> /\ IsSpace(Head(s)) THEN LStrip(Tail(s)) ELSE s

RECURSIVE RStrip(_)
RStrip(s) ==
    IF s # <<>> /\ IsSpace(s[Len(s)]) THEN RStrip(SubSeq(s, 1, Len(s) - 1)) ELSE s

StrStrip_LeftOnly(s) == LStrip(s)

StrStrip(s) == RStrip(LStrip(s))                 \* str.strip()

LowerChar(c) ==
    IF \E i \in 1..Len(UpperCase) : UpperCase[i] = c
    THEN LowerCase[CHOOSE i \in 1..Len(UpperCase) : UpperCase[i] = c]
    ELSE c

StrLower(s) == [i \in 1..Len(s) |-> LowerChar(s[i])]     \* str.lower()

\* str.replace(old, new) for a one-character old
RECURSIVE StrReplace(_, _, _)
StrReplace(s, old, new) ==
    IF s = <<>> THEN <<>>
    ELSE (IF Head(s) = old THEN new ELSE <<Head(s)>>) \o StrReplace(Tail(s), old, new)

\* str.split(sep) without a limit: every occurrence of sep separates two pieces
RECURSIVE StrSplit(_, _)
StrSplit(s, sep) ==
    IF \E i \in 1..Len(s) : s[i] = sep
    THEN LET i == CHOOSE j \in 1..Len(s) : s[j] = sep /\ \A h \in 1..(j - 1) : s[h] # sep
         IN  <<SubSeq(s, 1, i - 1)>> \o StrSplit(SubSeq(s, i + 1, Len(s)), sep)
    ELSE <<s>>

IsDigit(c) == \E i \in 1..Len(Digits) : Digits[i] = c
DigitValue(c) == (CHOOSE i \in 1..Len(Digits) : Digits[i] = c) - 1
IsNumeral(s) == s # <<>> /\ \A i \in 1..Len(s) : IsDigit(s[i])

RECURSIVE NumeralValue(_)
NumeralValue(s) ==
    IF s = <<>> THEN 0
    ELSE 10 * NumeralValue(SubSeq(s, 1, Len(s) - 1)) + DigitValue(s[Len(s)])

\* str(n) for n >= 0
RECURSIVE IntToStr(_)
IntToStr(n) ==
    IF n < 10 THEN <<Digits[n + 1]>> ELSE IntToStr(n \div 10) \o <<Digits[(n % 10) + 1]>>

(***************************************************************************)
(* DataFrame helpers.                                                      *)
(***************************************************************************)
NRows(t) == Len(t.rows)
NCols(t) == Len(t.cols)
Shape(t) == <<NRows(t), NCols(t)>>                       \* df.shape
HasCol(t, c) == \E j \in 1..NCols(t) : t.cols[j] = c     \* c in df.columns
ColIndex(t, c) == CHOOSE j \in 1..NCols(t) : t.cols[j] = c
Column(t, c) == [i \in 1..NRows(t) |-> t.rows[i][ColIndex(t, c)]]     \* df[c]

\* df[c] = series: overwrites the column c, or appends it as the last column
SetColumn(t, c, series) ==
    IF HasCol(t, c)
    THEN [t EXCEPT !.rows = [i \in 1..NRows(t) |->
                                [t.rows[i] EXCEPT ![ColIndex(t, c)] = series[i]]]]
    ELSE [cols |-> Append(t.cols, c),
          rows |-> [i \in 1..NRows(t) |-> Append(t.rows[i], series[i])]]

RECURSIVE KeepAt(_, _)
\* the subsequence of s at the positions where keep holds, in order
KeepAt(s, keep) ==
    IF s = <<>> THEN <<>>
    ELSE KeepAt(SubSeq(s, 1, Len(s) - 1), keep)
         \o (IF keep[Len(s)] THEN <<s[Len(s)]>> ELSE <<>>)

\* df.drop(columns=names)
DropColumns(t, names) ==
    LET keep == [j \in 1..NCols(t) |-> ~(\E h \in 1..Len(names) : names[h] = t.cols[j])]
    IN  [cols |-> KeepAt(t.cols, keep),
         rows |-> [i \in 1..NRows(t) |-> KeepAt(t.rows[i], keep)]]

\* the dtype of df[c] is object: read_csv gives object to the columns that hold
\* a string, and no function changes a column before testing its dtype
IsObjectDtype(t, c) == \E i \in 1..NRows(t) : IsStr(Column(t, c)[i])

Fillna(series, value) ==                                  \* Series.fillna
    [i \in 1..Len(series) |-> IF IsNull(series[i]) THEN value ELSE series[i]]

CountNull(series) == Cardinality({i \in 1..Len(series) : IsNull(series[i])})

Note(fn, text, arg) == [fn |-> fn, text |-> text, arg |-> arg]

(***************************************************************************)
(* load_df: pd.read_csv.  A field that is one of the default NA strings is *)
(* NaN; a column whose other fields are all numerals is numeric; any other *)
(* column keeps its fields as strings, untrimmed.                          *)
(***************************************************************************)
NaValues == {<<>>, <<"n", "a", "n">>, <<"N", "a", "N">>}

ReadCsv(file) ==
    LET n == Len(file.rows)
        numeric(j) == \A i \in 1..n :
                          file.rows[i][j] \in NaValues \/ IsNumeral(file.rows[i][j])
        cell(i, j) == IF file.rows[i][j] \in NaValues THEN NaN
                      ELSE IF numeric(j) THEN IntCell(NumeralValue(file.rows[i][j]))
                      ELSE StrCell(file.rows[i][j])
    IN  [cols |-> file.cols,
         rows |-> [i \in 1..n |-> [j \in 1..Len(file.cols) |-> cell(i, j)]]]

(***************************************************************************)
(* drop_unnecessary_columns                                                *)
(***************************************************************************)
cols_to_drop == <<UNNAMED_0, INDEX>>

drop_unnecessary_columns(t) ==
    LET existing_cols_to_drop ==
            KeepAt(cols_to_drop, [h \in 1..Len(cols_to_drop) |-> HasCol(t, cols_to_drop[h])])
    IN  IF existing_cols_to_drop # <<>>
        THEN [df |-> DropColumns(t, existing_cols_to_drop),
              note |-> Note("drop_unnecessary_columns", "Dropped unnecessary columns: {}",
                            existing_cols_to_drop)]
        ELSE [df |-> t,
              note |-> Note("drop_unnecessary_columns", "No unnecessary columns dropped.",
                            <<>>)]

(***************************************************************************)
(* drop_duplicates: DataFrame.drop_duplicates() keeps the first of the     *)
(* rows that are equal in every column.                                    *)
(***************************************************************************)
DuplicatedKeepLast(rows) ==
    [i \in 1..Len(rows) |-> \E h \in (i + 1)..Len(rows) : rows[h] = rows[i]]

DuplicatedKeepFirst(rows) ==
    [i \in 1..Len(rows) |-> \E h \in 1..(i - 1) : rows[h] = rows[i]]

\* DataFrame.empty: an axis of length 0; drop_duplicates then returns a copy
DataFrameEmpty(t) == NRows(t) = 0 \/ NCols(t) = 0

DataFrameDropDuplicates(t) ==
    LET dup == DuplicatedKeepFirst(t.rows)
    IN  IF DataFrameEmpty(t) THEN t
        ELSE [t EXCEPT !.rows = KeepAt(t.rows, [i \in 1..NRows(t) |-> ~dup[i]])]

drop_duplicates(t) ==
    LET before == NRows(t)
        out == DataFrameDropDuplicates(t)
        after == NRows(out)
        removed_count == before - after
    IN  [df |-> out,
         note |-> Note("drop_duplicates", "Removed duplicate rows: {} rows.",
                       <<removed_count>>)]

(***************************************************************************)
(* standardize_text_columns                                                *)
(***************************************************************************)
text_cols == <<TYPE, TITLE, DIRECTOR, CAST, COUNTRY, LISTED_IN, RATING, DESCRIPTION>>

\* Series.astype(str): str() of each value; str(nan) is "nan"
AsTypeStr(c) ==
    IF c.k = "str" THEN c
    ELSE IF c.k = "int" THEN StrCell(IntToStr(c.n))
    ELSE StrCell(S_nan)

\* the strings that .replace([...], np.nan) turns into NaN
missing_strings == {S_nan, S_none, S_empty}

ReplaceWithNaN(c) == IF c.k = "str" /\ c.s \in missing_strings THEN NaN ELSE c

StandardizeCell(c) == ReplaceWithNaN(StrCell(StrStrip(AsTypeStr(c).s)))

RECURSIVE StandardizeLoop(_, _, _)
\* the for loop over text_cols[h..], with cleaned_count so far
StandardizeLoop(t, h, cleaned_count) ==
    IF h > Len(text_cols) THEN [df |-> t, cleaned_count |-> cleaned_count]
    ELSE LET col == text_cols[h]
         IN  IF HasCol(t, col) /\ IsObjectDtype(t, col)
             THEN StandardizeLoop(
                      SetColumn(t, col, [i \in 1..NRows(t) |->
                                            StandardizeCell(Column(t, col)[i])]),
                      h + 1, cleaned_count + 1)
             ELSE StandardizeLoop(t, h + 1, cleaned_count)

standardize_text_columns(t) ==
    LET r == StandardizeLoop(t, 1, 0)
    IN  [df |-> r.df,
         note |-> Note("standardize_text_columns", "Standardized {} text columns",
                       <<r.cleaned_count>>)]

(***************************************************************************)
(* handle_missing_values                                                   *)
(***************************************************************************)
fill_na_cols == <<[col |-> DIRECTOR, value |-> NOT_AVAILABLE],
                  [col |-> CAST, value |-> NOT_AVAILABLE],
                  [col |-> COUNTRY, value |-> NOT_AVAILABLE]>>

\* pd.to_numeric(series, errors='coerce')
ToNumericCell(c) ==
    IF c.k = "int" THEN c
    ELSE IF c.k = "str" /\ IsNumeral(c.s) THEN IntCell(NumeralValue(c.s))
    ELSE NaN

ToNumeric(series) == [i \in 1..Len(series) |-> ToNumericCell(series[i])]

\* int(x) of the rational num/den, den > 0: truncation towards zero
PyInt(num, den) == IF num >= 0 THEN num \div den ELSE -((-num) \div den)

\* Series.median(skipna=True) as the rational [num, den]; den = 0 stands for nan,
\* the median of no values
Median(series) ==
    LET present == KeepAt(series, [i \in 1..Len(series) |-> ~IsNull(series[i])])
        values == SortSeq([i \in 1..Len(present) |-> present[i].n],
                          LAMBDA a, b : a < b)
        n == Len(values)
    IN  IF n = 0 THEN [num |-> 0, den |-> 0]
        ELSE IF n % 2 = 1 THEN [num |-> values[(n + 1) \div 2], den |-> 1]
        ELSE [num |-> values[n \div 2] + values[(n \div 2) + 1], den |-> 2]

RECURSIVE FillTextLoop(_, _, _)
\* the for loop over fill_na_cols[h..]
FillTextLoop(t, h, ns) ==
    IF h > Len(fill_na_cols) THEN [df |-> t, notes |-> ns]
    ELSE LET col == fill_na_cols[h].col
             value == fill_na_cols[h].value
         IN  IF HasCol(t, col)
             THEN FillTextLoop(SetColumn(t, col, Fillna(Column(t, col), StrCell(value))),
                               h + 1,
                               Append(ns, Note("handle_missing_values",
                                               "Replaced missing {} with '{}'.",
                                               <<col, value>>)))
             ELSE FillTextLoop(t, h + 1, ns)

\* the fill computed and dropped: df['rating'].fillna("Not Rated") without the assignment
FillRating_NotAssigned(r) ==
    IF HasCol(r.df, RATING)
    THEN [df |-> r.df,
          notes |-> Append(r.notes, Note("handle_missing_values",
                                         "Replaced missing rating with 'Not Rated'.",
                                         <<>>))]
    ELSE r

FillRating(r) ==
    IF HasCol(r.df, RATING)
    THEN [df |-> SetColumn(r.df, RATING, Fillna(Column(r.df, RATING), StrCell(NOT_RATED))),
          notes |-> Append(r.notes, Note("handle_missing_values",
                                         "Replaced missing rating with 'Not Rated'.",
                                         <<>>))]
    ELSE r

\* lines 80-89; int(nan) raises ValueError
FillReleaseYear(r) ==
    IF HasCol(r.df, RELEASE_YEAR)
    THEN LET coerced == ToNumeric(Column(r.df, RELEASE_YEAR))
             median == Median(coerced)
         IN  IF CountNull(coerced) > 0
             THEN IF median.den = 0
                  THEN [exc |-> "ValueError", df |-> r.df, notes |-> r.notes]
                  ELSE LET median_year == PyInt(median.num, median.den)
                       IN  [exc |-> "none",
                            df |-> SetColumn(r.df, RELEASE_YEAR,
                                             Fillna(coerced, IntCell(median_year))),
                            notes |-> Append(r.notes,
                                             Note("handle_missing_values",
                                                  "Filled missing release_year with median: {}",
                                                  <<median_year>>))]
             ELSE [exc |-> "none", df |-> SetColumn(r.df, RELEASE_YEAR, coerced),
                   notes |-> r.notes]
    ELSE [exc |-> "none", df |-> r.df, notes |-> r.notes]

handle_missing_values(t) == FillReleaseYear(FillRating(FillTextLoop(t, 1, <<>>)))

(***************************************************************************)
(* fix_duration_column                                                     *)
(***************************************************************************)
\* Series.str.split(' ', expand=True): one row of pieces per string, NaN for a
\* value that is no string; the frame has as many columns as the longest row
SplitPieces(c) == IF IsStr(c) THEN StrSplit(c.s, " ") ELSE <<>>

SplitWidth(series) ==
    LET lens == {Len(SplitPieces(series[i])) : i \in 1..Len(series)}
    IN  CHOOSE w \in lens : \A v \in lens : v <= w

\* split_duration[p - 1]: None pads the rows with fewer pieces
SplitColumn(series, p) ==
    [i \in 1..Len(series) |->
        IF ~IsStr(series[i]) THEN NaN
        ELSE IF Len(SplitPieces(series[i])) >= p THEN StrCell(SplitPieces(series[i])[p])
        ELSE NoneCell]

\* Series.str.lower(): missing values stay missing
SeriesStrLower(series) ==
    [i \in 1..Len(series) |->
        IF IsStr(series[i]) THEN StrCell(StrLower(series[i].s)) ELSE series[i]]

fix_duration_column(t) ==
    IF HasCol(t, DURATION)
    THEN LET filled == Fillna(Column(t, DURATION), StrCell(ZERO_MIN))
         IN  IF \A i \in 1..Len(filled) : ~IsStr(filled[i])
             THEN \* an int64 column has no .str accessor
                  [exc |-> "AttributeError", df |-> t, notes |-> <<>>]
             ELSE IF SplitWidth(filled) < 2
             THEN \* split_duration has the single column 0
                  [exc |-> "KeyError", df |-> t, notes |-> <<>>]
             ELSE LET duration_value ==
                          Fillna(ToNumeric(SplitColumn(filled, 1)), IntCell(0))
                      duration_unit == SeriesStrLower(SplitColumn(filled, 2))
                      with_value == SetColumn(SetColumn(t, DURATION, filled),
                                              DURATION_VALUE, duration_value)
                      with_unit == SetColumn(with_value, DURATION_UNIT, duration_unit)
                  IN  [exc |-> "none",
                       df |-> DropColumns(with_unit, <<DURATION>>),
                       notes |-> <<Note("fix_duration_column",
                                        "Cleaned 'duration' by splitting it",
                                        <<>>)>>]
    ELSE [exc |-> "none", df |-> t, notes |-> <<>>]

(***************************************************************************)
(* fix_date_added.  pd.to_datetime(errors='coerce') is modelled for the    *)
(* format "<Month> <day>, <year>" of the dataset: any other string, and a  *)
(* day the month does not have, is NaT.                                    *)
(***************************************************************************)
MonthNames ==
    <<<<"J", "a", "n", "u", "a", "r", "y">>,
      <<"F", "e", "b", "r", "u", "a", "r", "y">>,
      <<"M", "a", "r", "c", "h">>,
      <<"A", "p", "r", "i", "l">>,
      <<"M", "a", "y">>,
      <<"J", "u", "n", "e">>,
      <<"J", "u", "l", "y">>,
      <<"A", "u", "g", "u", "s", "t">>,
      <<"S", "e", "p", "t", "e", "m", "b", "e", "r">>,
      <<"O", "c", "t", "o", "b", "e", "r">>,
      <<"N", "o", "v", "e", "m", "b", "e", "r">>,
      <<"D", "e", "c", "e", "m", "b", "e", "r">>>>

IsMonthName(s) == \E m \in 1..Len(MonthNames) : MonthNames[m] = s
MonthNumber(s) == CHOOSE m \in 1..Len(MonthNames) : MonthNames[m] = s

IsLeapYear(y) == (y % 4 = 0 /\ y % 100 # 0) \/ y % 400 = 0

DaysInMonth(m, y) ==
    IF m = 2 THEN (IF IsLeapYear(y) THEN 29 ELSE 28)
    ELSE IF m \in {4, 6, 9, 11} THEN 30
    ELSE 31

ParseDate(s) ==
    LET pieces == StrSplit(s, " ")
        dayTok == pieces[2]
        dayNum == SubSeq(dayTok, 1, Len(dayTok) - 1)
    IN  IF /\ Len(pieces) = 3
           /\ IsMonthName(pieces[1])
           /\ dayTok # <<>> /\ dayTok[Len(dayTok)] = ","
           /\ IsNumeral(dayNum) /\ Len(dayNum) <= 2
           /\ IsNumeral(pieces[3]) /\ Len(pieces[3]) = 4
           /\ NumeralValue(dayNum) >= 1
           /\ NumeralValue(dayNum) <=
                  DaysInMonth(MonthNumber(pieces[1]), NumeralValue(pieces[3]))
        THEN Timestamp(NumeralValue(dayNum), MonthNumber(pieces[1]),
                       NumeralValue(pieces[3]))
        ELSE NaT

\* a number is taken as nanoseconds since the epoch
ToDatetimeCell(c) ==
    IF c.k = "str" THEN ParseDate(c.s)
    ELSE IF c.k = "int" THEN Timestamp(1, 1, 1970)
    ELSE NaT

ToDatetime(series) == [i \in 1..Len(series) |-> ToDatetimeCell(series[i])]

Pad(n, width) ==
    LET str == IntToStr(n)
    IN  [i \in 1..(width - Len(str)) |-> "0"] \o str

\* the text of each value, as astype(str) gives it: "NaT" for NaT
StrftimeCell_AsText(c) ==
    IF c.k = "date"
    THEN StrCell(Pad(c.n % 100, 2) \o <<"-">> \o Pad((c.n \div 100) % 100, 2)
                 \o <<"-">> \o Pad(c.n \div 10000, 4))
    ELSE StrCell(<<"N", "a", "T">>)

\* Series.dt.strftime('%d-%m-%Y'): NaT gives NaN
StrftimeCell(c) ==
    IF c.k = "date"
    THEN StrCell(Pad(c.n % 100, 2) \o <<"-">> \o Pad((c.n \div 100) % 100, 2)
                 \o <<"-">> \o Pad(c.n \div 10000, 4))
    ELSE NaN

Strftime(series) == [i \in 1..Len(series) |-> StrftimeCell(series[i])]

fix_date_added(t) ==
    IF HasCol(t, DATE_ADDED)
    THEN LET parsed == ToDatetime(Column(t, DATE_ADDED))
             with_parsed == SetColumn(t, DATE_ADDED_PARSED, parsed)
             null_count == CountNull(Column(with_parsed, DATE_ADDED_PARSED))
             with_text == SetColumn(with_parsed, DATE_ADDED_DDMMYYYY,
                                    Strftime(Column(with_parsed, DATE_ADDED_PARSED)))
         IN  [df |-> with_text,
              notes |-> <<Note("fix_date_added",
                               "Parsed 'date_added'. Failed to parse: {} entries.",
                               <<null_count>>)>>]
    ELSE [df |-> t, notes |-> <<>>]

(***************************************************************************)
(* rename_columns_snakecase                                                *)
(***************************************************************************)
SnakeCase(c) ==
    StrReplace(StrReplace(StrReplace(StrLower(StrStrip(c)), " ", <<"_">>),
                          ".", <<>>),
               "-", <<>>)

\* df.rename(columns=new_cols) relabels each column in place
rename_columns_snakecase(t) ==
    [df |-> [t EXCEPT !.cols = [j \in 1..NCols(t) |-> SnakeCase(t.cols[j])]],
     note |-> Note("rename_columns_snakecase",
                   "Converted all column names to snake_case.", <<>>)]

(***************************************************************************)
(* The input files of the model: a header of at most MaxCols of the labels *)
(* below, in this order, and 1..MaxRows rows of fields drawn per column.   *)
(***************************************************************************)
InputColumns == <<UNNAMED_0, SHOW_ID, TITLE, DIRECTOR, CAST, COUNTRY, RATING,
                  RELEASE_YEAR, DURATION, DATE_ADDED, A_DOT_B, A_HYPHEN_B, INDEX>>

TextFields == {<<>>, <<" ", "n", "a", "n">>, <<"n", "o", "n", "e">>,
               <<" ", "A", "b", " ">>}
YearFields == {<<>>, <<"3">>, <<"4">>, <<"x">>}
DurationFields == {<<>>, <<"9", " ", "M", "i">>, <<"1", "2">>, <<"x">>,
                   <<"3", " ", "m", " ", "x">>}
DateFields == {<<>>, <<"x">>,
               <<"M", "a", "y", " ", "9", ",", " ", "2", "0", "2", "1">>,
               <<"J", "u", "n", "e", " ", "3", "1", ",", " ", "2", "0", "2", "1">>}
OtherFields == {<<"0">>, <<"1">>}

FieldsOf(c) ==
    IF c \in {TITLE, DIRECTOR, CAST, COUNTRY, RATING} THEN TextFields
    ELSE IF c = RELEASE_YEAR THEN YearFields
    ELSE IF c = DURATION THEN DurationFields
    ELSE IF c = DATE_ADDED THEN DateFields
    ELSE OtherFields

RECURSIVE Ascending(_)
\* the members of a set of numbers, in ascending order
Ascending(S) ==
    IF S = {} THEN <<>>
    ELSE LET m == CHOOSE x \in S : \A y \in S : x <= y
         IN  <<m>> \o Ascending(S \ {m})

Headers ==
    {[h \in 1..Cardinality(S) |-> InputColumns[Ascending(S)[h]]] :
        S \in {T \in SUBSET (1..Len(InputColumns)) :
                  Cardinality(T) >= 1 /\ Cardinality(T) <= MaxCols}}

RECURSIVE RowsFor(_)
\* the rows of fields under a header
RowsFor(cols) ==
    IF cols = <<>> THEN {<<>>}
    ELSE {<<f>> \o r : f \in FieldsOf(Head(cols)), r \in RowsFor(Tail(cols))}

FilesWith(cols) ==
    UNION {{[exists |-> TRUE, cols |-> cols, rows |-> rows] :
               rows \in [1..n -> RowsFor(cols)]} :
           n \in {m \in 1..MaxRows : m * Len(cols) <= MaxCells}}

InputFiles == UNION {FilesWith(cols) : cols \in Headers}

NoFile == [exists |-> FALSE, cols |-> <<>>, rows |-> <<>>]
NoSummary == [exists |-> FALSE, original_shape |-> <<0, 0>>, final_shape |-> <<0, 0>>,
              notes |-> <<>>]
NoDf == [cols |-> <<>>, rows |-> <<>>]

(***************************************************************************)
(* main()                                                                  *)
(***************************************************************************)
Init ==
    /\ fs_input \in {NoFile} \cup InputFiles
    /\ pc = "start"
    /\ df = NoDf
    /\ df_in = NoDf
    /\ notes = <<>>
    /\ calls = <<>>
    /\ original_shape = <<0, 0>>
    /\ final_shape = <<0, 0>>
    /\ fs_output = NoFile
    /\ fs_summary = NoSummary
    /\ console = <<>>
    /\ raised = "none"

\* the check without its return: the summary is written all the same
InputNotFound_NoReturn ==
    /\ pc = "start"
    /\ ~fs_input.exists
    /\ console' = Append(console, "ERROR: Input file not found")
    /\ fs_summary' = [exists |-> TRUE, original_shape |-> original_shape,
                      final_shape |-> final_shape, notes |-> notes]
    /\ pc' = "done"
    /\ UNCHANGED <<fs_input, df, df_in, notes, calls, original_shape, final_shape,
                   fs_output, raised>>

\* lines 159-161: the input file is missing
InputNotFound ==
    /\ pc = "start"
    /\ ~fs_input.exists
    /\ console' = Append(console, "ERROR: Input file not found")
    /\ pc' = "done"
    /\ UNCHANGED <<fs_input, df, df_in, notes, calls, original_shape, final_shape,
                   fs_output, fs_summary, raised>>

\* lines 163-166: load_df, original_shape, basic_report
LoadDf ==
    /\ pc = "start"
    /\ fs_input.exists
    /\ df' = ReadCsv(fs_input)
    /\ original_shape' = Shape(df')
    /\ pc' = "drop_unnecessary_columns"
    /\ UNCHANGED <<fs_input, df_in, notes, calls, final_shape, fs_output, fs_summary,
                   console, raised>>

\* a cleaning function returned (df, note): notes.append(note)
ReturnNote(fn, r, next) ==
    /\ df_in' = df
    /\ calls' = Append(calls, fn)
    /\ df' = r.df
    /\ notes' = Append(notes, r.note)
    /\ pc' = next
    /\ UNCHANGED <<fs_input, original_shape, final_shape, fs_output, fs_summary,
                   console, raised>>

\* a cleaning function returned (df, notes): notes.extend(notes)
ReturnNotes(fn, r, next) ==
    /\ df_in' = df
    /\ calls' = Append(calls, fn)
    /\ df' = r.df
    /\ notes' = notes \o r.notes
    /\ pc' = next
    /\ UNCHANGED <<fs_input, original_shape, final_shape, fs_output, fs_summary,
                   console, raised>>

\* a cleaning function raised: the exception leaves main()
Raise(fn, exc) ==
    /\ df_in' = df
    /\ calls' = Append(calls, fn)
    /\ raised' = exc
    /\ pc' = "done"
    /\ UNCHANGED <<fs_input, df, notes, original_shape, final_shape, fs_output,
                   fs_summary, console>>

\* lines 169-170
DropUnnecessaryColumns ==
    /\ pc = "drop_unnecessary_columns"
    /\ ReturnNote("drop_unnecessary_columns", drop_unnecessary_columns(df),
                  "drop_duplicates")

\* lines 172-173
DropDuplicates ==
    /\ pc = "drop_duplicates"
    /\ ReturnNote("drop_duplicates", drop_duplicates(df), "standardize_text_columns")

\* lines 175-176
StandardizeTextColumns ==
    /\ pc = "standardize_text_columns"
    /\ ReturnNote("standardize_text_columns", standardize_text_columns(df),
                  "handle_missing_values")

\* lines 178-179
HandleMissingValues ==
    /\ pc = "handle_missing_values"
    /\ LET r == handle_missing_values(df)
       IN  IF r.exc = "none"
           THEN ReturnNotes("handle_missing_values", r, "fix_duration_column")
           ELSE Raise("handle_missing_values", r.exc)

\* lines 181-182
FixDurationColumn ==
    /\ pc = "fix_duration_column"
    /\ LET r == fix_duration_column(df)
       IN  IF r.exc = "none"
           THEN ReturnNotes("fix_duration_column", r, "fix_date_added")
           ELSE Raise("fix_duration_column", r.exc)

\* lines 184-185
FixDateAdded ==
    /\ pc = "fix_date_added"
    /\ ReturnNotes("fix_date_added", fix_date_added(df), "rename_columns_snakecase")

\* lines 187-188
RenameColumnsSnakecase ==
    /\ pc = "rename_columns_snakecase"
    /\ ReturnNote("rename_columns_snakecase", rename_columns_snakecase(df),
                  "final_checks_and_export")

\* lines 190-191: final_shape, df.to_csv(out_path, index=False)
FinalChecksAndExport ==
    /\ pc = "final_checks_and_export"
    /\ final_shape' = Shape(df)
    /\ fs_output' = [exists |-> TRUE, cols |-> df.cols, rows |-> df.rows]
    /\ pc' = "write_summary"
    /\ UNCHANGED <<fs_input, df, df_in, notes, calls, original_shape, fs_summary,
                   console, raised>>

\* line 193
WriteSummary ==
    /\ pc = "write_summary"
    /\ fs_summary' = [exists |-> TRUE, original_shape |-> original_shape,
                      final_shape |-> final_shape, notes |-> notes]
    /\ pc' = "done"
    /\ UNCHANGED <<fs_input, df, df_in, notes, calls, original_shape, final_shape,
                   fs_output, console, raised>>

Next ==
    \/ InputNotFound
    \/ LoadDf
    \/ DropUnnecessaryColumns
    \/ DropDuplicates
    \/ StandardizeTextColumns
    \/ HandleMissingValues
    \/ FixDurationColumn
    \/ FixDateAdded
    \/ RenameColumnsSnakecase
    \/ FinalChecksAndExport
    \/ WriteSummary

Spec == Init /\ [][Next]_vars

(***************************************************************************)
(* Properties                                                              *)
(***************************************************************************)
StageOrder == <<"drop_unnecessary_columns", "drop_duplicates",
                "standardize_text_columns", "handle_missing_values",
                "fix_duration_column", "fix_date_added", "rename_columns_snakecase">>

StageIndex(fn) == CHOOSE h \in 1..Len(StageOrder) : StageOrder[h] = fn

\* the cleaning function called last is fn
Called(fn) == calls # <<>> /\ calls[Len(calls)] = fn

\* the cleaning function called last is fn and it returned: df_in is its
\* argument and df the table it returned
Returned(fn) == Called(fn) /\ raised = "none"

Loaded == fs_input.exists

NotesInStageOrder(ns) ==
    \A a, b \in 1..Len(ns) : a < b => StageIndex(ns[a].fn) <= StageIndex(ns[b].fn)

\* C1: in every run of main() that loads a table, the seven stages run exactly
\* once each in the pipeline's order, the renamer last, and the summary holds
\* the stages' notes in that order.
C1_EveryRunExecutesAllStagesInOrder ==
    (Loaded /\ pc = "done") =>
        /\ calls = StageOrder
        /\ fs_summary.exists
        /\ fs_summary.notes = notes
        /\ NotesInStageOrder(fs_summary.notes)
        /\ \A h \in 1..Len(StageOrder) :
               h \in {1, 2, 3, 7} => \E a \in 1..Len(notes) : notes[a].fn = StageOrder[h]

\* C2: with the input path missing, main() loads nothing, calls no cleaning
\* function and writes neither artifact; it only prints the diagnostic.
C2_MissingInputAborts ==
    ~Loaded =>
        /\ df = NoDf /\ calls = <<>> /\ notes = <<>>
        /\ original_shape = <<0, 0>> /\ final_shape = <<0, 0>>
        /\ ~fs_output.exists /\ ~fs_summary.exists
        /\ raised = "none"
        /\ pc \in {"start", "done"}
        /\ pc = "done" => console = <<"ERROR: Input file not found">>

C2_Witness == ~Loaded /\ pc = "done" /\ console # <<>>

\* a field of the input that is text where a number or a date is expected
MalformedField(c, f) ==
    /\ f \notin NaValues
    /\ \/ c = RELEASE_YEAR /\ ~IsNumeral(f)
       \/ c = DATE_ADDED /\ ParseDate(f) = NaT
       \/ c = DURATION /\ ~IsNumeral(StrSplit(f, " ")[1])

HasMalformedField(file) ==
    \E i \in 1..Len(file.rows) : \E j \in 1..Len(file.cols) :
        MalformedField(file.cols[j], file.rows[i][j])

\* C3: a malformed cell value (a non-numeric release_year, an unparseable
\* date_added, a non-numeric leading duration token) never makes a stage fail:
\* main() runs every stage and writes both artifacts, also when every
\* release_year value is non-numeric.
C3_NoStageFails ==
    (Loaded /\ HasMalformedField(fs_input) /\ pc = "done") =>
        /\ raised = "none"
        /\ Len(calls) = Len(StageOrder)
        /\ fs_output.exists /\ fs_summary.exists

\* C4: after handle_missing_values returns, director, cast, country and rating
\* hold no missing value (the missing ones became "Not Available", "Not Rated"
\* for rating), and release_year, when it had a numeric value, holds integers
\* only.
FillValue(c) == IF c = RATING THEN NOT_RATED ELSE NOT_AVAILABLE

C4_NoMissingAfterFill ==
    Returned("handle_missing_values") =>
        /\ \A c \in {DIRECTOR, CAST, COUNTRY, RATING} :
               HasCol(df_in, c) =>
                   /\ HasCol(df, c)
                   /\ \A i \in 1..NRows(df) :
                          /\ ~IsNull(Column(df, c)[i])
                          /\ Column(df, c)[i] =
                                 IF IsNull(Column(df_in, c)[i])
                                 THEN StrCell(FillValue(c))
                                 ELSE Column(df_in, c)[i]
        /\ (/\ HasCol(df_in, RELEASE_YEAR)
            /\ \E i \in 1..NRows(df_in) :
                   \/ Column(df_in, RELEASE_YEAR)[i].k = "int"
                   \/ /\ IsStr(Column(df_in, RELEASE_YEAR)[i])
                      /\ IsNumeral(Column(df_in, RELEASE_YEAR)[i].s))
           => \A i \in 1..NRows(df) : Column(df, RELEASE_YEAR)[i].k = "int"

C4_Witness ==
    /\ Returned("handle_missing_values")
    /\ HasCol(df_in, RATING) /\ HasCol(df_in, RELEASE_YEAR)
    /\ \E i \in 1..NRows(df_in) :
           /\ IsNull(Column(df_in, RATING)[i])
           /\ Column(df, RATING)[i] = StrCell(NOT_RATED)
           /\ IsStr(Column(df_in, RELEASE_YEAR)[i])
           /\ ~IsNumeral(Column(df_in, RELEASE_YEAR)[i].s)
           /\ Column(df, RELEASE_YEAR)[i].k = "int"

\* C5: after standardize_text_columns returns, no value of a present text
\* target column is "nan", "none" or "" (those are the missing marker), every
\* other value is trimmed, and the columns outside the target set are unchanged.
IsTarget(c) == \E h \in 1..Len(text_cols) : text_cols[h] = c

Trimmed(str) == str = <<>> \/ (str[1] # " " /\ str[Len(str)] # " ")

C5_TextNormalized ==
    Returned("standardize_text_columns") =>
        /\ df.cols = df_in.cols /\ NRows(df) = NRows(df_in)
        /\ \A j \in 1..NCols(df) : \A i \in 1..NRows(df) :
               IF IsTarget(df.cols[j]) /\ IsObjectDtype(df_in, df.cols[j])
               THEN \/ df.rows[i][j] = NaN
                    \/ /\ IsStr(df.rows[i][j])
                       /\ df.rows[i][j].s \notin {<<"n", "a", "n">>,
                                                  <<"n", "o", "n", "e">>, <<>>}
                       /\ Trimmed(df.rows[i][j].s)
               ELSE IsTarget(df.cols[j]) \/ df.rows[i][j] = df_in.rows[i][j]

C5_Witness ==
    /\ Returned("standardize_text_columns")
    /\ HasCol(df_in, TITLE) /\ HasCol(df_in, SHOW_ID)
    /\ \E i, h \in 1..NRows(df_in) :
           /\ Column(df_in, TITLE)[i] = StrCell(<<" ", "n", "a", "n">>)
           /\ Column(df, TITLE)[i] = NaN
           /\ Column(df_in, TITLE)[h] = StrCell(<<" ", "A", "b", " ">>)
           /\ Column(df, TITLE)[h] = StrCell(<<"A", "b">>)

\* C6: fix_duration_column splits "N unit" on the first space only:
\* duration_value is N and duration_unit is everything after the first space,
\* lower-cased; a missing duration gives duration_value 0; the duration column
\* is gone from the returned table.
FirstSpace(str) == CHOOSE p \in 1..Len(str) : str[p] = " " /\ \A h \in 1..(p - 1) : str[h] # " "
HasSpace(str) == \E p \in 1..Len(str) : str[p] = " "
BeforeFirstSpace(str) == SubSeq(str, 1, FirstSpace(str) - 1)
AfterFirstSpace(str) == SubSeq(str, FirstSpace(str) + 1, Len(str))

C6_SplitOnFirstSpace ==
    (Returned("fix_duration_column") /\ HasCol(df_in, DURATION)) =>
        /\ ~HasCol(df, DURATION)
        /\ HasCol(df, DURATION_VALUE) /\ HasCol(df, DURATION_UNIT)
        /\ \A i \in 1..NRows(df_in) :
               LET d == Column(df_in, DURATION)[i]
               IN  /\ IsNull(d) => Column(df, DURATION_VALUE)[i] = IntCell(0)
                   /\ (IsStr(d) /\ HasSpace(d.s) /\ IsNumeral(BeforeFirstSpace(d.s))) =>
                          /\ Column(df, DURATION_VALUE)[i] =
                                 IntCell(NumeralValue(BeforeFirstSpace(d.s)))
                          /\ Column(df, DURATION_UNIT)[i] =
                                 StrCell(StrLower(AfterFirstSpace(d.s)))

\* C7: in a table with a duration column, every row whose duration has no space
\* gets the missing marker as duration_unit and fix_duration_column returns
\* normally, also when no row of the column has a space.
C7_NoUnitGivesMissingUnit ==
    (Called("fix_duration_column") /\ HasCol(df_in, DURATION)) =>
        /\ raised = "none"
        /\ HasCol(df, DURATION_UNIT)
        /\ \A i \in 1..NRows(df_in) :
               LET d == Column(df_in, DURATION)[i]
               IN  (~IsNull(d) /\ ~(IsStr(d) /\ HasSpace(d.s))) =>
                       IsNull(Column(df, DURATION_UNIT)[i])

\* C8: drop_duplicates returns a table with no two equal rows, holding the
\* first occurrences of the input's rows in their order, no longer than the
\* input; the note's count is the input row count minus the output row count.
NoTwoRowsEqual(t) == \A a, b \in 1..NRows(t) : a # b => t.rows[a] # t.rows[b]

FirstOccurrence(rows, r) == CHOOSE i \in 1..Len(rows) : rows[i] = r /\ \A h \in 1..(i - 1) : rows[h] # r

KeepsFirstOccurrencesInOrder(tin, tout) ==
    /\ tout.cols = tin.cols
    /\ {tout.rows[a] : a \in 1..NRows(tout)} = {tin.rows[i] : i \in 1..NRows(tin)}
    /\ \A a, b \in 1..NRows(tout) :
           a < b => FirstOccurrence(tin.rows, tout.rows[a])
                        < FirstOccurrence(tin.rows, tout.rows[b])

DuplicateNoteCount == notes[Len(notes)].arg[1]

C8_NoDuplicateRows ==
    Returned("drop_duplicates") =>
        /\ NoTwoRowsEqual(df)
        /\ KeepsFirstOccurrencesInOrder(df_in, df)
        /\ NRows(df) <= NRows(df_in)
        /\ DuplicateNoteCount = NRows(df_in) - NRows(df)

\* C8 as amended: the same for every table with at least one column; a table
\* with no columns is returned as it is, with the count 0.
C8_NoDuplicateRowsGivenAColumn ==
    Returned("drop_duplicates") =>
        /\ NCols(df_in) >= 1 => NoTwoRowsEqual(df) /\ KeepsFirstOccurrencesInOrder(df_in, df)
        /\ NCols(df_in) = 0 => df = df_in
        /\ NRows(df) <= NRows(df_in)
        /\ DuplicateNoteCount = NRows(df_in) - NRows(df)

C8_Witness ==
    /\ Returned("drop_duplicates")
    /\ NRows(df_in) = 3 /\ NRows(df) = 2
    /\ df_in.rows[1] = df_in.rows[3]
    /\ DuplicateNoteCount = 1

\* C9: rename_columns_snakecase keeps the column order and gives pairwise
\* distinct names to a table whose column names are unique.
UniqueColumns(t) == \A a, b \in 1..NCols(t) : a # b => t.cols[a] # t.cols[b]

C9_RenameKeepsNamesDistinct ==
    (Returned("rename_columns_snakecase") /\ UniqueColumns(df_in)) =>
        /\ NCols(df) = NCols(df_in)
        /\ df.rows = df_in.rows
        /\ UniqueColumns(df)

\* C10: fix_date_added gives a row whose date_added is no date the null date
\* as date_added_parsed and a missing date_added_ddmmyyyy, never a formatted
\* date; the date_added column stays; the note's count is the number of rows
\* whose date_added_parsed is null.
RealDates == {StrCell(<<"M", "a", "y", " ", "9", ",", " ", "2", "0", "2", "1">>)}

DateNoteCount == notes[Len(notes)].arg[1]

C10_UnparseableDateIsNull ==
    (Returned("fix_date_added") /\ HasCol(df_in, DATE_ADDED)) =>
        /\ HasCol(df, DATE_ADDED) /\ Column(df, DATE_ADDED) = Column(df_in, DATE_ADDED)
        /\ HasCol(df, DATE_ADDED_PARSED) /\ HasCol(df, DATE_ADDED_DDMMYYYY)
        /\ \A i \in 1..NRows(df_in) :
               Column(df_in, DATE_ADDED)[i] \notin RealDates =>
                   /\ Column(df, DATE_ADDED_PARSED)[i] = NaT
                   /\ IsNull(Column(df, DATE_ADDED_DDMMYYYY)[i])
        /\ notes[Len(notes)].fn = "fix_date_added"
        /\ DateNoteCount =
               Cardinality({i \in 1..NRows(df) : IsNull(Column(df, DATE_ADDED_PARSED)[i])})

C10_Witness ==
    /\ Returned("fix_date_added") /\ HasCol(df_in, DATE_ADDED)
    /\ \E i, h \in 1..NRows(df_in) :
           /\ IsStr(Column(df_in, DATE_ADDED)[i])
           /\ Column(df, DATE_ADDED_PARSED)[i] = NaT
           /\ Column(df, DATE_ADDED_DDMMYYYY)[i] = NaN
           /\ Column(df, DATE_ADDED_PARSED)[h] = Timestamp(9, 5, 2021)
           /\ Column(df, DATE_ADDED_DDMMYYYY)[h] =
                  StrCell(<<"0", "9", "-", "0", "5", "-", "2", "0", "2", "1">>)
    /\ DateNoteCount >= 1

====
